---- MODULE Spec2Model ----
(***************************************************************************)
(* The worker node of src/src/classes/class.node.ts as a state machine.    *)
(*                                                                         *)
(* The node is one object (its memoized random stream factory, its console *)
(* counter and newline flag) and a set of subscriptions to the observables *)
(* it hands out: initialiseStreamFactory$() and start$().  Every rxjs      *)
(* callback of those two pipelines is one action.  Time is abstract: a     *)
(* clock tick, a server response and the firing of a retry timer may occur *)
(* in any order the running timers and outstanding requests allow, and the *)
(* duration every retry timer is armed with is recorded.                   *)
(***************************************************************************)
EXTENDS Integers, Sequences, FiniteSets, TLC

\* ------------------------------------------------------------- bounds
\* clock ticks of the main loop observed per start$() subscription
MaxTicks == 3
\* seed requests outstanding at once within one polling round
MaxPending == 2
\* trace records a model emits during one run
MaxTrace == 1
\* Math.random() is drawn in steps of 1 / RandomSteps
RandomSteps == 1000
\* trace records the console counts without a reset
MaxCounted == 2000

\* -------------------------------------------------- program constants
\* retry({ count: 3, ... }) of initialiseStreamFactory$
InitRetryCount == 3
\* timer(5000)
InitRetryDelayMs == 5000
\* one retry fewer
PostRetryCountLess == 5 - 1
\* retry({ count: 5, ... }) of _postResult$
PostRetryCount == 5
\* Math.min(2000 * Math.pow(2, retryCount), 32000)
PostBaseDelayMs == 2000
PostMaxDelayMs == 32000
\* private _randomStreamFactory: RandomStreamFactory | undefined
Undefined == 0
\* Math.floor(100000 + Math.random() * 900000)
InstanceIdBase == 100000
InstanceIdSpan == 900000
\* private _counterDiv: number = 1000
CounterDiv == 1000

\* the subscriber of src/main.ts, and three callers of the public API
MainSub == "main"
Callers == {"a", "b", "c"}
Subscribers == {MainSub} \cup Callers

\* the model registry handed to the constructor, and the types a job may declare
Models == {"A", "B"}
JobTypes == {"A", "B", "b", "X"}

VARIABLES
    randomStreamFactory,  \* Node._randomStreamFactory: Undefined or an instance
    made,                 \* the RandomStreamFactory instances constructed so far
    seedCalls,            \* invocations of _getSeeds$() so far
    firstEmitted,         \* the first instance any initialiseStreamFactory$() emitted
    machineId,            \* Node._machineId
    instanceId,           \* Node._instanceId, as the number it is the decimal string of
    id,                   \* Node._id
    counterDiv,           \* Node._counterDiv
    counter,              \* Node._counter
    newline,              \* Node._newline
    verbose,              \* Node._verbose
    lastLogs,             \* the records the latest logging callback emitted
    stdout,               \* what _console wrote for those records, in order
    observers,            \* the external subscribers of getLog$() attached now
    received,             \* per external subscriber: what the latest emission handed it
    kind,                 \* per subscriber: "none", "init", "start" or "simulate"
    init,                 \* per subscriber: the initialiseStreamFactory$ pipeline
    loop,                 \* per subscriber: the start$ loop
    cur,                  \* per subscriber: the inner pipeline of the accepted tick
    job,                  \* per subscriber: the answer to its latest next-job request
    postResponse,         \* per subscriber: the answer to the latest result post of its tick
    sink                  \* per subscriber: what the subscriber has been notified of

vars == <<randomStreamFactory, made, seedCalls, firstEmitted, machineId, instanceId,
          id, counterDiv, counter, newline, verbose, lastLogs, stdout, observers,
          received, kind, init, loop, cur, job, postResponse, sink>>

\* the fields no method of the node assigns after the constructor
fixedVars == <<machineId, instanceId, id, counterDiv>>

nodeVars == <<randomStreamFactory, made, seedCalls, firstEmitted, fixedVars>>

\* ------------------------------------------------------------ helpers
Min(a, b) == IF a < b THEN a ELSE b

Last(q) == q[Len(q)]

RECURSIVE Pow2(_)
Pow2(n) == IF n = 0 THEN 1 ELSE 2 * Pow2(n - 1)

\* a log line emitted through logger.warn
RecordWarn(message, about, attempt) ==
    [level |-> "warn", source |-> "Node", message |-> message, about |-> about,
     attempt |-> attempt]

\* a log line of _log(message, data): always logger.info, source "Node";
\* about is the model type a message names, attempt the attempt of its data
Record(message, about, attempt) ==
    [level |-> "info", source |-> "Node", message |-> message, about |-> about,
     attempt |-> attempt]

\* a record of a retry whose data leaves the attempt out
LineWithoutAttempt(message, attempt) == Record(message, "none", 0)

Line(message, attempt) == Record(message, "none", attempt)

L(message) == Line(message, 0)

\* tsLogger.<type>(message, data), message being sourceObject + ": " + message
\* and data the stringified data of the record
Render(rec) ==
    rec.level \o " " \o rec.source \o ": " \o rec.message
        \o (IF rec.attempt = 0 THEN "" ELSE " " \o ToString(rec.attempt))

\* this._counter % this._counterDiv === 0 without its guard: the remainder is
\* NaN for a divisor of 0 and that of the division by |div| otherwise
SecondaryMarkerUnguarded(count, div) ==
    IF div = 0 THEN FALSE ELSE count % (IF div < 0 THEN 0 - div ELSE div) = 0

\* this._counterDiv > 0 && this._counter % this._counterDiv === 0
SecondaryMarker(count, div) == div > 0 /\ count % div = 0

\* the subscribers an application may attach to getLog$()
LogObservers == {"x", "y"}

\* a logger that is a queue with one consumer: the console subscription is
\* handed a record only while no other subscriber is attached
ToConsoleUnlessObserved(msgs) == IF observers = {} THEN msgs ELSE <<>>

\* Logger.getObservable$() is hot: the console subscription of the constructor
\* is handed every record emitted
ToConsole(msgs) == msgs

\* and so is every subscriber of getLog$() attached at the emission
ToObserver(o, msgs) == IF o \in observers THEN msgs ELSE <<>>

\* the logger emits the info, warn or error records of one callback.  _console:
\* a pending line of progress markers is ended first, and every record is
\* rendered
Log(msgs) ==
    IF msgs = <<>>
    THEN UNCHANGED <<lastLogs, stdout, received, newline>>
    ELSE /\ received' = [o \in LogObservers |-> ToObserver(o, msgs)]
         /\ IF ToConsole(msgs) = <<>>
            THEN UNCHANGED <<lastLogs, stdout, newline>>
            ELSE /\ lastLogs' = ToConsole(msgs)
                 /\ stdout' = (IF newline THEN <<"\n">> ELSE <<>>)
                                \o [i \in DOMAIN msgs |-> Render(ToConsole(msgs)[i])]
                 /\ newline' = FALSE

\* a _console that sets the pending-newline flag for every trace record, rendered
\* or counted
ConsoleTraceFlagsAlways(rec) ==
    /\ received' = [o \in LogObservers |-> ToObserver(o, <<rec>>)]
    /\ lastLogs' = ToConsole(<<rec>>)
    /\ newline' = TRUE
    /\ IF verbose
       THEN /\ stdout' = <<Render(rec)>>
            /\ UNCHANGED counter
       ELSE /\ counter' = counter + 1
            /\ stdout' = (IF newline THEN <<>> ELSE <<".">>)
                           \o (IF SecondaryMarker(counter + 1, counterDiv)
                               THEN <<".">> ELSE <<>>)

\* _console for a trace record: rendered in verbose mode, counted otherwise,
\* with a marker when the line of markers begins and one every _counterDiv
ConsoleTrace(rec) ==
    /\ received' = [o \in LogObservers |-> ToObserver(o, <<rec>>)]
    /\ lastLogs' = ToConsole(<<rec>>)
    /\ IF verbose
       THEN /\ stdout' = <<Render(rec)>>
            /\ UNCHANGED <<counter, newline>>
       ELSE /\ counter' = counter + 1
            /\ newline' = TRUE
            /\ stdout' = (IF newline THEN <<>> ELSE <<".">>)
                           \o (IF SecondaryMarker(counter + 1, counterDiv)
                               THEN <<".">> ELSE <<>>)

Messages(msgs) == {msgs[i].message : i \in DOMAIN msgs}

\* a retry operator that tests soFar++ <= count
RetryAllowedInclusive(soFarNow, count) == soFarNow <= count

\* rxjs retry: the error handler tests soFar++ < count
RetryAllowed(soFarNow, count) == soFarNow < count

\* a delay callback whose wait grows with the retry
InitRetryDelayGrowing(retryCount) == InitRetryDelayMs * retryCount

\* the delay callback of initialiseStreamFactory$'s retry
InitRetryDelay(retryCount) == InitRetryDelayMs

\* the delay callback of _postResult$'s retry
PostRetryDelay(retryCount) ==
    Min(PostBaseDelayMs * Pow2(retryCount), PostMaxDelayMs)

\* the error the initializer ends with when its retries are exhausted
ErrInitFailed == "Random stream factory initialization failed"

\* ------------------------------------------------------------ initial
NoInit ==
    [st |-> "unsub", soFar |-> 0, pending |-> 0, rounds |-> 0, seedReqs |-> 0,
     delays |-> <<>>, got |-> Undefined, late |-> Undefined]

\* nodeIds: the nodeId of every next-job request sent
NoLoop ==
    [st |-> "off", ticks |-> <<>>, jobReqs |-> 0, errTicks |-> 0, abandoned |-> 0,
     nodeIds |-> {}]

IdleCur ==
    [ph |-> "idle", why |-> "none", type |-> "none", runs |-> 0, posts |-> 0,
     soFar |-> 0, delays |-> <<>>]

NoSink == [values |-> <<>>, term |-> "open", err |-> "none"]

\* an answer to a next-job request that carries no job descriptor
NoPayload(k) == [kind |-> k, id |-> "missing", org |-> "missing"]

\* the instances the initializer of s has constructed
Built(s) == {i \in DOMAIN made : made[i].by = s}

\* getRandomStreamFactory()
GetRandomStreamFactory == randomStreamFactory

\* config.id as the configuration file gives it: absent, empty, or a name
ConfigIds == {"absent", "", "node-1"}

\* the identifier machineIdSync() reads from the host
MachineIdSync == "machine-1"

\* the draws of Math.random(), in steps of 1 / RandomSteps
RandomDraws == {0, RandomSteps \div 2, RandomSteps - 1}

\* an instance id drawn from 0 up to 999999
InstanceIdWide(random) == (random * 1000000) \div RandomSteps

\* Math.floor(100000 + Math.random() * 900000)
InstanceId(random) == InstanceIdBase + (random * InstanceIdSpan) \div RandomSteps

\* config?.id ? config.id : machineIdSync()
MachineId(configId) ==
    IF configId \in {"absent", ""} THEN MachineIdSync ELSE configId

\* this._machineId + ":" + this._instanceId
NodeId(machine, instance) == machine \o ":" \o ToString(instance)

\* the node after its constructor, for the id of its configuration, a draw of
\* Math.random() and a value of _counterDiv: two info lines were logged
Constructed(configId, random, div) ==
    /\ randomStreamFactory = Undefined
    /\ made = <<>>
    /\ seedCalls = 0
    /\ firstEmitted = Undefined
    /\ machineId = MachineId(configId)
    /\ instanceId = InstanceId(random)
    /\ id = NodeId(MachineId(configId), InstanceId(random))
    /\ counterDiv = div
    /\ counter = 0
    /\ newline = FALSE
    /\ verbose \in BOOLEAN
    /\ lastLogs = <<L("Initialising node"), L("Node initialised")>>
    /\ stdout = <<Render(L("Initialising node")), Render(L("Node initialised"))>>
    /\ observers = {}
    /\ received = [o \in LogObservers |-> <<>>]
    /\ kind = [s \in Subscribers |-> "none"]
    /\ init = [s \in Subscribers |-> NoInit]
    /\ loop = [s \in Subscribers |-> NoLoop]
    /\ cur = [s \in Subscribers |-> IdleCur]
    /\ job = [s \in Subscribers |-> NoPayload("none")]
    /\ postResponse = [s \in Subscribers |-> "none"]
    /\ sink = [s \in Subscribers |-> NoSink]

\* the node of a host without a configured id
Init == Constructed("absent", 0, CounterDiv)

\* ------------------------------------------- initialiseStreamFactory$
\* the clock of the loop subscribed to together with the initializer
LoopAtSubscribeEager == "running"

\* the state of the loop of a start$() subscription while its initializer runs:
\* concatMap subscribes to the clock only when the initializer has emitted
LoopAtSubscribe == "off"

\* a fresh subscription to the initializer pipeline
Subscribed(s) ==
    [NoInit EXCEPT !.st = "polling", !.rounds = 1, !.late = firstEmitted]

\* initialiseStreamFactory$() called and subscribed to by s
CallInitialise(s) ==
    /\ kind[s] = "none"
    /\ kind' = [kind EXCEPT ![s] = "init"]
    /\ init' = [init EXCEPT ![s] = Subscribed(s)]
    /\ Log(<<L("Initialising random stream factory")>>)
    /\ UNCHANGED <<nodeVars, counter, verbose, observers, postResponse, job, loop, cur, sink>>

\* start$() called and subscribed to by s
CallStart(s) ==
    /\ kind[s] = "none"
    /\ kind' = [kind EXCEPT ![s] = "start"]
    /\ init' = [init EXCEPT ![s] = Subscribed(s)]
    /\ loop' = [loop EXCEPT ![s] = [NoLoop EXCEPT !.st = LoopAtSubscribe]]
    /\ Log(<<L("Initialising random stream factory")>>)
    /\ UNCHANGED <<nodeVars, counter, verbose, observers, postResponse, job, cur, sink>>

\* an initializer without first(): an emission neither completes it nor unsubscribes
\* the clock and the outstanding seed requests
EmitWithoutFirst(s, f, msgs) ==
    /\ init' = [init EXCEPT ![s] = [@ EXCEPT !.pending = @ - 1, !.got = f]]
    /\ firstEmitted' = IF firstEmitted = Undefined THEN f ELSE firstEmitted
    /\ Log(msgs)
    /\ IF kind[s] = "init"
       THEN /\ sink' = [sink EXCEPT ![s] = [@ EXCEPT !.values = Append(@, f)]]
            /\ UNCHANGED loop
       ELSE /\ loop' = [loop EXCEPT ![s] = [@ EXCEPT !.st = "running"]]
            /\ UNCHANGED sink

\* the initializer of s emits instance f after logging msgs: first() completes
\* it and unsubscribes the clock and every outstanding seed request
Emit(s, f, msgs) ==
    /\ init' = [init EXCEPT ![s] = [@ EXCEPT !.st = "done", !.pending = 0, !.got = f]]
    /\ firstEmitted' = IF firstEmitted = Undefined THEN f ELSE firstEmitted
    /\ Log(msgs)
    /\ IF kind[s] = "init"
       THEN /\ sink' = [sink EXCEPT ![s] =
                          [@ EXCEPT !.values = Append(@, f), !.term = "complete"]]
            /\ UNCHANGED loop
       ELSE /\ loop' = [loop EXCEPT ![s] = [@ EXCEPT !.st = "running"]]
            /\ UNCHANGED sink

\* the mergeMap callback on a clock tick of the initializer of s
SeedsTick(s) ==
    /\ init[s].st = "polling"
    /\ IF randomStreamFactory = Undefined
       THEN /\ init[s].pending < MaxPending
            /\ init' = [init EXCEPT ![s] =
                          [@ EXCEPT !.pending = @ + 1, !.seedReqs = @ + 1]]
            /\ seedCalls' = seedCalls + 1
            /\ Log(<<L("Requesting seeds")>>)
            /\ UNCHANGED <<randomStreamFactory, made, firstEmitted, loop, sink>>
       ELSE /\ Emit(s, randomStreamFactory, <<L("Node already initialised. Skipping.")>>)
            /\ UNCHANGED <<randomStreamFactory, made, seedCalls>>
    /\ UNCHANGED <<fixedVars, counter, verbose, observers, postResponse, job, kind, cur>>

\* _getSeeds$: response?.payload ?? null
SeedResponses == {"seeds", "empty", "absent", "error"}

GetSeeds(r) == IF r = "absent" THEN "null" ELSE r

\* an initializer whose catchError swallows the exhausted error and completes
InitErrorSwallowed(s, pre) ==
    IF RetryAllowed(init[s].soFar, InitRetryCount)
    THEN /\ init' = [init EXCEPT ![s] =
                       [@ EXCEPT !.st = "delay", !.soFar = @ + 1, !.pending = 0,
                                 !.delays = Append(@, InitRetryDelay(init[s].soFar + 1))]]
         /\ Log(pre \o <<Line("Error initialising random stream factory - retrying",
                              (init[s].soFar + 1) + 1)>>)
         /\ UNCHANGED <<loop, sink>>
    ELSE /\ init' = [init EXCEPT ![s] = [@ EXCEPT !.st = "failed", !.pending = 0]]
         /\ sink' = [sink EXCEPT ![s] = [@ EXCEPT !.term = "complete"]]
         /\ Log(pre \o <<L("Failed to initialise random stream factory after retries")>>)
         /\ UNCHANGED loop

\* an initializer whose exhausted error passes the outer catchError of the loop
\* and reaches the subscriber of start$()
InitErrorRethrown(s, pre) ==
    IF RetryAllowed(init[s].soFar, InitRetryCount)
    THEN /\ init' = [init EXCEPT ![s] =
                       [@ EXCEPT !.st = "delay", !.soFar = @ + 1, !.pending = 0,
                                 !.delays = Append(@, InitRetryDelay(init[s].soFar + 1))]]
         /\ Log(pre \o <<Line("Error initialising random stream factory - retrying",
                              (init[s].soFar + 1) + 1)>>)
         /\ UNCHANGED <<loop, sink>>
    ELSE /\ init' = [init EXCEPT ![s] = [@ EXCEPT !.st = "failed", !.pending = 0]]
         /\ sink' = [sink EXCEPT ![s] =
                       [@ EXCEPT !.term = "error", !.err = ErrInitFailed]]
         /\ Log(pre \o <<L("Failed to initialise random stream factory after retries")>>)
         /\ IF kind[s] = "init"
            THEN UNCHANGED loop
            ELSE loop' = [loop EXCEPT ![s] = [@ EXCEPT !.st = "completed"]]

\* the initializer of s raises an error after logging pre: the retry operator, then
\* the catchError behind it and, for start$(), the outer catchError of the loop
InitError(s, pre) ==
    IF RetryAllowed(init[s].soFar, InitRetryCount)
    THEN /\ init' = [init EXCEPT ![s] =
                       [@ EXCEPT !.st = "delay", !.soFar = @ + 1, !.pending = 0,
                                 !.delays = Append(@, InitRetryDelay(init[s].soFar + 1))]]
         /\ Log(pre \o <<Line("Error initialising random stream factory - retrying",
                              (init[s].soFar + 1) + 1)>>)
         /\ UNCHANGED <<loop, sink>>
    ELSE /\ init' = [init EXCEPT ![s] = [@ EXCEPT !.st = "failed", !.pending = 0]]
         /\ IF kind[s] = "init"
            THEN /\ sink' = [sink EXCEPT ![s] =
                               [@ EXCEPT !.term = "error", !.err = ErrInitFailed]]
                 /\ Log(pre \o <<L("Failed to initialise random stream factory after retries")>>)
                 /\ UNCHANGED loop
            ELSE /\ sink' = [sink EXCEPT ![s] =
                               [@ EXCEPT !.values = Append(@, "false"),
                                         !.term = "complete"]]
                 /\ loop' = [loop EXCEPT ![s] = [@ EXCEPT !.st = "completed"]]
                 /\ Log(pre \o <<L("Failed to initialise random stream factory after retries"),
                                 L("Error in main loop")>>)

\* the switchMap callback on the response r to a seed request of s
SeedsResponse(s, r) ==
    /\ init[s].st = "polling"
    /\ init[s].pending > 0
    /\ IF r = "error"
       THEN /\ InitError(s, <<>>)
            /\ UNCHANGED nodeVars
       ELSE IF GetSeeds(r) = "null"
       THEN /\ InitError(s, <<L("Seeds fetched"), L("No seeds received. Retrying.")>>)
            /\ UNCHANGED nodeVars
       ELSE /\ made' = Append(made, [by |-> s, seeds |-> GetSeeds(r)])
            /\ randomStreamFactory' = Len(made) + 1
            /\ Emit(s, Len(made) + 1,
                    <<L("Seeds fetched"), L("Random stream factory initialised")>>)
            /\ UNCHANGED seedCalls
    /\ UNCHANGED <<fixedVars, counter, verbose, observers, postResponse, job, kind, cur>>

\* the retry timer of the initializer of s fires: retry resubscribes to the clock
InitRetryTimer(s) ==
    /\ init[s].st = "delay"
    /\ init' = [init EXCEPT ![s] = [@ EXCEPT !.st = "polling", !.rounds = @ + 1]]
    /\ UNCHANGED <<nodeVars, counter, newline, verbose, observers, postResponse, job, lastLogs, stdout, received, kind, loop, cur, sink>>

InitStep(s) ==
    \/ SeedsTick(s)
    \/ \E r \in SeedResponses : SeedsResponse(s, r)
    \/ InitRetryTimer(s)

\* ------------------------------------------------------------- start$
\* _getNext$: const options = { query: { nodeId: this._id } }
GetNextQuery == [nodeId |-> id]

\* exhaustMap: a clock tick is projected only while no inner pipeline is active
Active(s) == {i \in DOMAIN loop[s].ticks : loop[s].ticks[i] = "active"}

Busy(s) == Active(s) # {}

\* mergeMap in the place of exhaustMap: every tick is projected
AcceptsEveryTick(s) == TRUE

Accepts(s) == ~Busy(s)

\* the tick whose inner pipeline is running
Current(s) == CHOOSE i \in Active(s) : \A j \in Active(s) : j <= i

\* a callback that leaves the counter as the previous job left it
CounterKept(count) == count

\* this._counter = 0
CounterReset(count) == 0

\* the exhaustMap callback on a clock tick of the loop of s
LoopTick(s) ==
    /\ loop[s].st = "running"
    /\ Len(loop[s].ticks) < MaxTicks
    /\ IF Accepts(s)
       THEN /\ Log(<<L("Requesting job")>>)
            /\ counter' = CounterReset(counter)
            /\ cur' = [cur EXCEPT ![s] = [IdleCur EXCEPT !.ph = "fetching"]]
            /\ job' = [job EXCEPT ![s] = NoPayload("none")]
            /\ postResponse' = [postResponse EXCEPT ![s] = "none"]
            /\ loop' = [loop EXCEPT ![s] =
                          [@ EXCEPT !.ticks = Append(@, "active"), !.jobReqs = @ + 1,
                                    !.nodeIds = @ \cup {GetNextQuery.nodeId}]]
       ELSE /\ loop' = [loop EXCEPT ![s] = [@ EXCEPT !.ticks = Append(@, "dropped")]]
            /\ UNCHANGED <<counter, cur, job, postResponse, lastLogs, stdout, received,
                           newline>>
    /\ UNCHANGED <<nodeVars, verbose, observers, kind, init, sink>>

\* an inner pipeline that emits its outcome and never completes: exhaustMap
\* keeps it for the active one
FinishWithoutCompleting(s, out, why, msgs) ==
    /\ cur' = [cur EXCEPT ![s] = [@ EXCEPT !.ph = "idle", !.why = why]]
    /\ sink' = [sink EXCEPT ![s] =
                  [@ EXCEPT !.values = IF out = "empty" THEN @ ELSE Append(@, out)]]
    /\ Log(msgs)
    /\ UNCHANGED loop

\* a projection that queues the ticks arriving while an inner pipeline is
\* active (concatMap): when the pipeline completes, the oldest queued tick is
\* projected at once
FinishAndReplay(s, out, why, msgs) ==
    LET queued == {i \in DOMAIN loop[s].ticks : loop[s].ticks[i] = "dropped"}
        ended == [loop[s].ticks EXCEPT ![Current(s)] = out]
    IN  /\ IF queued = {}
           THEN /\ cur' = [cur EXCEPT ![s] = [@ EXCEPT !.ph = "idle", !.why = why]]
                /\ loop' = [loop EXCEPT ![s] = [@ EXCEPT !.ticks = ended]]
           ELSE /\ cur' = [cur EXCEPT ![s] = [IdleCur EXCEPT !.ph = "fetching"]]
                /\ loop' = [loop EXCEPT ![s] =
                              [@ EXCEPT !.ticks =
                                            [ended EXCEPT
                                               ![CHOOSE i \in queued :
                                                   \A k \in queued : i <= k] = "active"],
                                        !.jobReqs = @ + 1]]
        /\ sink' = [sink EXCEPT ![s] =
                      [@ EXCEPT !.values = IF out = "empty" THEN @ ELSE Append(@, out)]]
        /\ Log(msgs)

\* the inner pipeline of s completes with outcome out ("true", "false", or
\* "empty" when it completes without a value) for the reason why, logging msgs
Finish(s, out, why, msgs) ==
    /\ cur' = [cur EXCEPT ![s] = [@ EXCEPT !.ph = "idle", !.why = why]]
    /\ loop' = [loop EXCEPT ![s] =
                  [@ EXCEPT !.ticks = [@ EXCEPT ![Current(s)] = out]]]
    /\ sink' = [sink EXCEPT ![s] =
                  [@ EXCEPT !.values = IF out = "empty" THEN @ ELSE Append(@, out)]]
    /\ Log(msgs)

\* start$ without its inner catchError: the error leaves exhaustMap and reaches
\* the outer catchError, which answers false and completes the stream
CatchOuterOnly(s, why, pre) ==
    /\ cur' = [cur EXCEPT ![s] = [@ EXCEPT !.ph = "idle", !.why = why]]
    /\ loop' = [loop EXCEPT ![s] =
                  [@ EXCEPT !.ticks = [@ EXCEPT ![Current(s)] = "false"],
                            !.errTicks = @ + 1, !.st = "completed",
                            !.abandoned = IF why = "postfail" THEN @ + 1 ELSE @]]
    /\ sink' = [sink EXCEPT ![s] =
                  [@ EXCEPT !.values = Append(@, "false"), !.term = "complete"]]
    /\ Log(pre \o <<L("Error in main loop")>>)

\* an inner catchError that answers with a stream that neither emits nor
\* completes: the error is logged and the inner pipeline stays active
CatchInnerNever(s, why, pre) ==
    /\ cur' = [cur EXCEPT ![s] = [@ EXCEPT !.ph = "idle", !.why = why]]
    /\ Log(pre \o <<L("Error processing job")>>)
    /\ UNCHANGED <<loop, sink>>

\* an inner pipeline that asks for the job again when the request has failed
CatchInnerRefetch(s, why, pre) ==
    IF why = "fetcherr"
    THEN /\ cur' = [cur EXCEPT ![s] = [IdleCur EXCEPT !.ph = "fetching"]]
         /\ loop' = [loop EXCEPT ![s] = [@ EXCEPT !.jobReqs = @ + 1]]
         /\ Log(pre \o <<L("Error processing job")>>)
         /\ UNCHANGED sink
    ELSE /\ cur' = [cur EXCEPT ![s] = [@ EXCEPT !.ph = "idle", !.why = why]]
         /\ loop' = [loop EXCEPT ![s] =
                       [@ EXCEPT !.ticks = [@ EXCEPT ![Current(s)] = "false"],
                                 !.errTicks = @ + 1,
                                 !.abandoned = IF why = "postfail" THEN @ + 1 ELSE @]]
         /\ sink' = [sink EXCEPT ![s] = [@ EXCEPT !.values = Append(@, "false")]]
         /\ Log(pre \o <<L("Error processing job")>>)

\* the inner catchError of start$: the error is logged and the tick yields false
CatchInner(s, why, pre) ==
    /\ cur' = [cur EXCEPT ![s] = [@ EXCEPT !.ph = "idle", !.why = why]]
    /\ loop' = [loop EXCEPT ![s] =
                  [@ EXCEPT !.ticks = [@ EXCEPT ![Current(s)] = "false"],
                            !.errTicks = @ + 1,
                            !.abandoned = IF why = "postfail" THEN @ + 1 ELSE @]]
    /\ sink' = [sink EXCEPT ![s] = [@ EXCEPT !.values = Append(@, "false")]]
    /\ Log(pre \o <<L("Error processing job")>>)

\* the answers to a next-job request: a request error, a completion without a
\* value, a response without payload, or a job descriptor [id, org], org being
\* its orgConfig?.type ("missing": no orgConfig, "undefined": an orgConfig
\* without a type)
JobResponses ==
    {NoPayload(k) : k \in {"error", "empty", "absent"}}
        \cup [kind : {"job"}, id : {"missing", "j1"},
              org : {"missing", "undefined"} \cup JobTypes]

\* _getNext$: response?.payload ?? null
GetNext(r) == IF r.kind = "absent" THEN NoPayload("null") ELSE r

\* a check of the id only
WellFormedIdOnly(p) == p.kind # "null" /\ p.id # "missing"

\* response !== null && response !== undefined && response.id && response.orgConfig
WellFormed(p) == p.kind # "null" /\ p.id # "missing" /\ p.org # "missing"

\* a lookup that compares the names without regard to letter case
FindModelIgnoreCase(type) ==
    IF type \in Models THEN type ELSE IF type = "b" THEN "B" ELSE "none"

\* simulate$: this._models.find((model) => model.name === simConfigDTO.orgConfig?.type)
FindModel(type) == IF type \in Models THEN type ELSE "none"

\* a test of the source that every value passes
ReadyAlways(f) == TRUE

\* simulate$: else if (this._randomStreamFactory)
Ready(f) == f # Undefined

\* the first concatMap callback (with simulate$) on the response r to the job request of s
FetchResponse(s, r) ==
    /\ loop[s].st = "running"
    /\ cur[s].ph = "fetching"
    /\ job' = [job EXCEPT ![s] = r]
    /\ IF r.kind = "error"
       THEN CatchInner(s, "fetcherr", <<>>)
       ELSE IF r.kind = "empty"
       THEN Finish(s, "empty", "fetchempty", <<>>)
       ELSE IF ~WellFormed(GetNext(r))
       THEN Finish(s, "false", "nojob", <<L("No job received - retrying")>>)
       ELSE IF FindModel(r.org) = "none"
       THEN Finish(s, "false", "nomodel",
                   <<L("SimConfig received"),
                     Record("Model <type> not found - skipping job", r.org, 0)>>)
       ELSE IF Ready(randomStreamFactory)
       THEN /\ cur' = [cur EXCEPT ![s] =
                         [@ EXCEPT !.ph = "executing", !.type = FindModel(r.org),
                                   !.runs = @ + 1]]
            /\ Log(<<L("SimConfig received")>>)
            /\ UNCHANGED <<loop, sink>>
       ELSE Finish(s, "false", "notready",
                   <<L("SimConfig received"),
                     L("Random stream factory not initialised - retrying")>>)
    /\ UNCHANGED <<nodeVars, counter, verbose, observers, postResponse, kind, init>>

\* _console on a trace record the running model of s emits through the logger
ModelTrace(s) ==
    /\ loop[s].st = "running"
    /\ cur[s].ph = "executing"
    /\ counter < MaxTrace
    /\ ConsoleTrace([level |-> "trace", source |-> cur[s].type,
                     message |-> "Clock tick", about |-> "none", attempt |-> 0])
    /\ UNCHANGED <<nodeVars, verbose, observers, postResponse, job, kind, init, loop, cur, sink>>

\* model.run$ ends: with a result, with null in the place of a result, with an
\* error, or without a value
RunOutcomes == {"result", "null", "error", "empty"}

\* the second concatMap callback on the outcome r of the model run of s
RunOutcome(s, r) ==
    /\ loop[s].st = "running"
    /\ cur[s].ph = "executing"
    /\ IF r = "error"
       THEN CatchInner(s, "runerr", <<>>)
       ELSE IF r = "empty"
       THEN Finish(s, "empty", "runempty", <<>>)
       ELSE IF r = "null"
       THEN Finish(s, "false", "noresult", <<>>)
       ELSE /\ cur' = [cur EXCEPT ![s] = [@ EXCEPT !.ph = "posting", !.posts = @ + 1]]
            /\ Log(<<L("Posting results")>>)
            /\ UNCHANGED <<loop, sink>>
    /\ UNCHANGED <<nodeVars, counter, verbose, observers, postResponse, job, kind, init>>

\* the answer to a result post: an acknowledgement, nothing, an error payload,
\* or a request error
PostResponses == {"ok", "absent", "errfield", "error"}

\* a retry that also takes a response that is no acknowledgement for a failure
RaisedOrRefused(r) == r # "ok"

\* retry acts on the error notifications of the post request only
Raised(r) == r = "error"

\* _postResult$ (retry, catchError) and the third concatMap callback on the
\* response r to the result post of s
PostResponse(s, r) ==
    /\ loop[s].st = "running"
    /\ cur[s].ph = "posting"
    /\ postResponse' = [postResponse EXCEPT ![s] = r]
    /\ IF Raised(r)
       THEN IF RetryAllowed(cur[s].soFar, PostRetryCount)
            THEN /\ cur' = [cur EXCEPT ![s] =
                              [@ EXCEPT !.ph = "backoff", !.soFar = @ + 1,
                                        !.delays = Append(@, PostRetryDelay(cur[s].soFar + 1))]]
                 /\ Log(<<Line("Error posting result - retrying", (cur[s].soFar + 1) + 1)>>)
                 /\ UNCHANGED <<loop, sink>>
            ELSE CatchInner(s, "postfail", <<L("Failed to post result after retries")>>)
       ELSE IF r = "ok"
       THEN Finish(s, "true", "ok", <<L("Response received")>>)
       ELSE Finish(s, "false", "badresp", <<>>)
    /\ UNCHANGED <<nodeVars, counter, verbose, observers, job, kind, init>>

\* a retry placed behind the whole inner pipeline in the place of the post
\* request: when the timer fires the job is requested and run again
PostRetryRerun(s) ==
    /\ loop[s].st = "running"
    /\ cur[s].ph = "backoff"
    /\ cur' = [cur EXCEPT ![s] = [@ EXCEPT !.ph = "executing", !.runs = @ + 1]]
    /\ loop' = [loop EXCEPT ![s] = [@ EXCEPT !.jobReqs = @ + 1]]
    /\ UNCHANGED <<nodeVars, counter, newline, verbose, observers, postResponse, job, lastLogs, stdout, received, kind, init, sink>>

\* the backoff timer of the result post of s fires: retry resubscribes to the request
PostRetryTimer(s) ==
    /\ loop[s].st = "running"
    /\ cur[s].ph = "backoff"
    /\ cur' = [cur EXCEPT ![s] = [@ EXCEPT !.ph = "posting", !.posts = @ + 1]]
    /\ UNCHANGED <<nodeVars, counter, newline, verbose, observers, postResponse, job, lastLogs, stdout, received, kind, init, loop, sink>>

LoopStep(s) ==
    \/ LoopTick(s)
    \/ \E r \in JobResponses : FetchResponse(s, r)
    \/ ModelTrace(s)
    \/ \E r \in RunOutcomes : RunOutcome(s, r)
    \/ \E r \in PostResponses : PostResponse(s, r)
    \/ PostRetryTimer(s)

\* ------------------------------------------------------ specifications
\* src/main.ts: one subscription to start$()
Next == CallStart(MainSub) \/ InitStep(MainSub) \/ LoopStep(MainSub)

Spec == Init /\ [][Next]_vars

\* the callers subscribe in the order a, b, c (they are interchangeable)
Earlier(s) == {t \in Callers : (t = "a" /\ s # "a") \/ (t = "b" /\ s = "c")}

InOrder(s) == \A t \in Earlier(s) : kind[t] # "none"

\* three callers of initialiseStreamFactory$(), in any interleaving
NextRace == \E s \in Callers : (InOrder(s) /\ CallInitialise(s)) \/ InitStep(s)

SpecRace == Init /\ [][NextRace]_vars

\* two callers of initialiseStreamFactory$(), in any interleaving
Pair == {"a", "b"}

NextPair == \E s \in Pair : (InOrder(s) /\ CallInitialise(s)) \/ InitStep(s)

SpecPair == Init /\ [][NextPair]_vars

\* one caller of initialiseStreamFactory$()
NextInit == CallInitialise("a") \/ InitStep("a")

SpecInit == Init /\ [][NextInit]_vars

\* src/main.ts on SIGTERM or SIGINT: subscription.unsubscribe() between two
\* info lines of source "Main".  Unsubscribing tears the whole chain down at
\* once: the clock, the initializer with its outstanding seed requests and its
\* retry timer, and the inner pipeline of the tick in flight (its request, its
\* model run, its backoff timer); nothing is sent to the subscriber afterwards
Shutdown(s) ==
    /\ kind[s] = "start"
    /\ sink[s].term = "open"
    /\ sink' = [sink EXCEPT ![s] = [@ EXCEPT !.term = "unsubscribed"]]
    /\ init' = [init EXCEPT ![s] =
                  IF @.st \in {"polling", "delay"}
                  THEN [@ EXCEPT !.st = "unsubscribed", !.pending = 0]
                  ELSE @]
    /\ loop' = [loop EXCEPT ![s] =
                  [@ EXCEPT !.st = "unsubscribed",
                            !.ticks = [i \in DOMAIN @ |->
                                         IF @[i] = "active" THEN "aborted" ELSE @[i]]]]
    /\ cur' = [cur EXCEPT ![s] =
                  IF @.ph = "idle" THEN @ ELSE [@ EXCEPT !.ph = "idle", !.why = "aborted"]]
    /\ Log(<<[L("Received <signal>, shutting down gracefully...") EXCEPT !.source = "Main"],
             [L("Shutdown complete") EXCEPT !.source = "Main"]>>)
    /\ UNCHANGED <<nodeVars, counter, verbose, observers, postResponse, job, kind>>

\* src/main.ts with its signal handlers
NextShutdown == Next \/ Shutdown(MainSub)

SpecShutdown == Init /\ [][NextShutdown]_vars

\* interval() never completes: the clock of the loop of s ticks on for ever.
\* Of the ticks of a loop left running only a window is recorded: the tick
\* whose inner pipeline is active and the first tick dropped behind it
TickInWindow(s) ==
    /\ IF loop[s].ticks = <<>> THEN TRUE ELSE Last(loop[s].ticks) = "active"
    /\ LoopTick(s)

\* the loop of s is idle: the record of the ticks seen so far is dropped and a
\* new window begins
NextWindow(s) ==
    /\ loop[s].st = "running"
    /\ ~Busy(s)
    /\ loop[s].ticks # <<>>
    /\ loop' = [loop EXCEPT ![s] = [NoLoop EXCEPT !.st = "running"]]
    /\ sink' = [sink EXCEPT ![s] = [@ EXCEPT !.values = <<>>]]
    /\ UNCHANGED <<nodeVars, counter, newline, verbose, observers, postResponse, lastLogs, stdout, received, kind, init, cur, job>>

\* src/main.ts left running for ever
NextLive ==
    \/ CallStart(MainSub)
    \/ InitStep(MainSub)
    \/ TickInWindow(MainSub)
    \/ \E r \in JobResponses : FetchResponse(MainSub, r)
    \/ ModelTrace(MainSub)
    \/ \E r \in RunOutcomes : RunOutcome(MainSub, r)
    \/ \E r \in PostResponses : PostResponse(MainSub, r)
    \/ PostRetryTimer(MainSub)
    \/ NextWindow(MainSub)

\* the clock keeps ticking, every request and every model run ends, and every
\* timer fires
Fairness ==
    /\ WF_vars(TickInWindow(MainSub) \/ NextWindow(MainSub))
    /\ WF_vars(\E r \in JobResponses : FetchResponse(MainSub, r))
    /\ WF_vars(\E r \in RunOutcomes : RunOutcome(MainSub, r))
    /\ WF_vars(\E r \in PostResponses : PostResponse(MainSub, r))
    /\ WF_vars(PostRetryTimer(MainSub))

SpecLive == Init /\ [][NextLive]_vars /\ Fairness

\* src/main.ts left running for ever, for every configured id and every draw
\* of the instance id
InitIdentity ==
    \E configId \in ConfigIds, random \in RandomDraws :
        Constructed(configId, random, CounterDiv)

SpecIdentity == InitIdentity /\ [][NextLive]_vars

\* the values of _counterDiv the console is examined for: the one the class
\* declares, none, a negative one and a small one
CounterDivs == {CounterDiv, 0, 0 - 1, 3}

\* the types of the records _console renders as lines
LineTypes == {"info", "warn", "error"}

\* a holder of getLogger() emits a trace record
LoggerTrace ==
    /\ counter < MaxCounted
    /\ ConsoleTrace([level |-> "trace", source |-> "CustomModule",
                     message |-> "Custom operation completed", about |-> "none",
                     attempt |-> 0])
    /\ UNCHANGED <<nodeVars, verbose, observers, postResponse, kind, init, loop, cur, job, sink>>

\* a holder of getLogger() emits an info, warn or error record
LoggerLine(type) ==
    /\ Log(<<[level |-> type, source |-> "CustomModule",
              message |-> "Custom operation completed", about |-> "none",
              attempt |-> 0]>>)
    /\ UNCHANGED <<nodeVars, counter, verbose, observers, postResponse, kind, init, loop, cur, job, sink>>

\* the console of a node, for each of those values of _counterDiv
InitConsole == \E div \in CounterDivs : Constructed("absent", 0, div)

NextConsole == LoggerTrace \/ \E type \in LineTypes : LoggerLine(type)

SpecConsole == InitConsole /\ [][NextConsole]_vars

\* the job descriptor a caller hands to simulate$(): its orgConfig?.type
SimConfigs == [kind : {"job"}, id : {"j1"}, org : {"undefined"} \cup JobTypes]

\* simulate$(dto) called and subscribed to by s: the model is looked up and the
\* source tested in the call; of(null) emits null and completes
CallSimulate(s, dto) ==
    /\ kind[s] = "none"
    /\ kind' = [kind EXCEPT ![s] = "simulate"]
    /\ job' = [job EXCEPT ![s] = dto]
    /\ IF FindModel(dto.org) = "none"
       THEN /\ cur' = [cur EXCEPT ![s] = [@ EXCEPT !.why = "nomodel"]]
            /\ sink' = [sink EXCEPT ![s] =
                          [@ EXCEPT !.values = Append(@, "null"), !.term = "complete"]]
            /\ Log(<<Record("Model <type> not found - skipping job", dto.org, 0)>>)
       ELSE IF Ready(randomStreamFactory)
       THEN /\ cur' = [cur EXCEPT ![s] =
                         [@ EXCEPT !.ph = "executing", !.type = FindModel(dto.org),
                                   !.runs = @ + 1]]
            /\ UNCHANGED <<sink, lastLogs, stdout, received, newline>>
       ELSE /\ cur' = [cur EXCEPT ![s] = [@ EXCEPT !.why = "notready"]]
            /\ sink' = [sink EXCEPT ![s] =
                          [@ EXCEPT !.values = Append(@, "null"), !.term = "complete"]]
            /\ Log(<<L("Random stream factory not initialised - retrying")>>)
    /\ UNCHANGED <<nodeVars, counter, verbose, observers, postResponse, init, loop>>

\* the model run of a simulate$() subscribed to by s ends with the outcome r,
\* handed to the subscriber as it is
SimulateEnds(s, r) ==
    /\ kind[s] = "simulate"
    /\ cur[s].ph = "executing"
    /\ cur' = [cur EXCEPT ![s] = [@ EXCEPT !.ph = "idle", !.why = r]]
    /\ sink' = [sink EXCEPT ![s] =
                  IF r = "error" THEN [@ EXCEPT !.term = "error", !.err = "run"]
                  ELSE IF r = "empty" THEN [@ EXCEPT !.term = "complete"]
                  ELSE [@ EXCEPT !.values = Append(@, r), !.term = "complete"]]
    /\ UNCHANGED <<nodeVars, counter, newline, verbose, observers, postResponse, lastLogs, stdout, received, kind, init,
                   loop, job>>

\* a caller of initialiseStreamFactory$() and, at any moment before, during or
\* after it, a caller of simulate$()
NextSimulate ==
    \/ NextInit
    \/ \E dto \in SimConfigs : CallSimulate("b", dto)
    \/ \E r \in RunOutcomes : SimulateEnds("b", r)

SpecSimulate == Init /\ [][NextSimulate]_vars

\* the subscribers of start$() on one node: src/main.ts and one more
Loops == {MainSub, "a"}

\* the second subscription to start$() is made while the first loop runs
StartSecond(s) ==
    /\ s # MainSub
    /\ loop[MainSub].st = "running"
    /\ CallStart(s)

\* of the clock of each loop the first tick is observed
FirstTick(s) ==
    /\ loop[s].ticks = <<>>
    /\ LoopTick(s)

\* start$() subscribed to twice on the same node: each subscription has its own
\* clock (interval is cold) and its own exhaustMap
NextTwoLoops ==
    \/ CallStart(MainSub)
    \/ \E s \in Loops :
           \/ StartSecond(s)
           \/ InitStep(s)
           \/ FirstTick(s)
           \/ \E r \in JobResponses : FetchResponse(s, r)
           \/ ModelTrace(s)
           \/ \E r \in RunOutcomes : RunOutcome(s, r)
           \/ \E r \in PostResponses : PostResponse(s, r)
           \/ PostRetryTimer(s)

SpecTwoLoops == Init /\ [][NextTwoLoops]_vars

\* getLog$().subscribe(...) by the external subscriber o
Attach(o) ==
    /\ o \notin observers
    /\ observers' = observers \cup {o}
    /\ UNCHANGED <<nodeVars, counter, newline, verbose, lastLogs, stdout, received, kind,
                   init, loop, cur, job, postResponse, sink>>

\* the external subscriber o unsubscribes
Detach(o) ==
    /\ o \in observers
    /\ observers' = observers \ {o}
    /\ UNCHANGED <<nodeVars, counter, newline, verbose, lastLogs, stdout, received, kind,
                   init, loop, cur, job, postResponse, sink>>

\* a node that logs (a caller of initialiseStreamFactory$()) while external
\* subscribers attach to and detach from its log stream
NextLog ==
    \/ NextInit
    \/ \E o \in LogObservers : Attach(o) \/ Detach(o)

SpecLog == Init /\ [][NextLog]_vars

\* ------------------------------------------------------------- claims
IsPrefix(p, q) == Len(p) <= Len(q) /\ \A i \in DOMAIN p : p[i] = q[i]

\* a clock tick of the loop of s occurs in this step
TickOccurs(s) == Len(loop'[s].ticks) = Len(loop[s].ticks) + 1

\* C1: within one start$() subscription at most one inner pipeline (fetch,
\* run, report) is in flight in every state, and a clock tick that occurs
\* while one is in flight is dropped: it issues no next-job request and
\* changes nothing of the pipeline in flight (no run, no post).
C1_AtMostOneJobInFlight ==
    /\ [](Cardinality(Active(MainSub)) <= 1)
    /\ [][(Busy(MainSub) /\ TickOccurs(MainSub)) =>
            /\ Last(loop'[MainSub].ticks) = "dropped"
            /\ loop'[MainSub].jobReqs = loop[MainSub].jobReqs
            /\ cur' = cur
            /\ sink' = sink]_vars

\* a tick was dropped while the job of an earlier tick is still in flight
C1_Witness ==
    \E i, j \in DOMAIN loop[MainSub].ticks :
        /\ i < j
        /\ loop[MainSub].ticks[i] = "active"
        /\ loop[MainSub].ticks[j] = "dropped"
        /\ cur[MainSub].ph \in {"executing", "posting", "backoff"}

\* the reasons an inner pipeline ends with an error
ErrorEnds == {"fetcherr", "runerr", "postfail"}

\* C2: a tick that ends with an error of the fetch, of the run or of the
\* exhausted result post logs "Error processing job", yields false, sends no
\* error or completion to the subscriber, and leaves the loop running and
\* ready to accept the next clock tick.
C2_TickErrorsAreCaught ==
    /\ [](sink[MainSub].term # "error")
    /\ [][(cur'[MainSub].why \in ErrorEnds /\ cur[MainSub].ph # "idle"
             /\ cur'[MainSub].ph = "idle") =>
            /\ "Error processing job" \in Messages(lastLogs')
            /\ sink'[MainSub].values = Append(sink[MainSub].values, "false")
            /\ sink'[MainSub].term = "open"
            /\ loop'[MainSub].st = "running"
            /\ ~Busy(MainSub)'
            /\ loop'[MainSub].errTicks = loop[MainSub].errTicks + 1]_vars
    /\ [](loop[MainSub].errTicks > 0 => loop[MainSub].st = "running")

\* after one tick ended with a caught error, a later tick ended with the
\* exhaustion of the result post: both were survived
C2_Witness ==
    /\ loop[MainSub].errTicks >= 2
    /\ cur[MainSub].why = "postfail"
    /\ cur[MainSub].ph = "idle"
    /\ loop[MainSub].st = "running"

\* C3: a next-job request is issued only when the initializer of the
\* subscription has emitted and the source is stored; the loop polls only
\* after that, and a subscription whose initializer failed has requested no
\* job and never will (its stream is completed).
C3_NoJobBeforeSource ==
    /\ loop[MainSub].jobReqs > 0 =>
          randomStreamFactory # Undefined /\ init[MainSub].st = "done"
    /\ loop[MainSub].st = "running" =>
          randomStreamFactory # Undefined /\ init[MainSub].st = "done"
    /\ cur[MainSub].ph # "idle" => randomStreamFactory # Undefined
    /\ init[MainSub].st = "failed" =>
          loop[MainSub].jobReqs = 0 /\ loop[MainSub].st = "completed"

\* a job was requested by a loop whose initializer had to retry first
C3_Witness ==
    /\ loop[MainSub].jobReqs > 0
    /\ init[MainSub].soFar > 0

\* C4: two callers of initialiseStreamFactory$() that both subscribed before
\* any source existed receive the identical instance, and at most one seed
\* request is issued across the two.
C4_ConcurrentCallsShareOneSource ==
    \A s, t \in Pair :
        (/\ s # t
         /\ init[s].late = Undefined /\ init[t].late = Undefined
         /\ init[s].st = "done" /\ init[t].st = "done") =>
            /\ init[s].got = init[t].got
            /\ init[s].seedReqs + init[t].seedReqs <= 1

\* C5: a call made after some call has emitted a source issues no seed
\* request, constructs nothing and, when it completes, has emitted that same
\* instance.
C5_LaterCallsReuseTheSource ==
    \A t \in Callers :
        init[t].late # Undefined =>
            /\ init[t].seedReqs = 0
            /\ Built(t) = {}
            /\ init[t].st # "failed"
            /\ init[t].st = "done" => init[t].got = init[t].late

\* C6: once the stored source is set, no step replaces it by another
\* instance: getRandomStreamFactory() returns the same instance ever after.
C6_SourceIsSetOnce ==
    [][GetRandomStreamFactory # Undefined =>
         GetRandomStreamFactory' = GetRandomStreamFactory]_vars

\* C7 as stated: an initializer that failed permanently polled 3 times.
C7_ThreeSeedAttempts ==
    init["a"].st = "failed" => init["a"].rounds = 3

\* C7 as amended: an initializer that failed permanently polled 4 times (the
\* first attempt and 3 retries), issued at least one seed request in each, and
\* armed a 5000 ms timer after each of the first three failures; no timer of
\* the initializer is ever armed with another duration, and no fifth attempt
\* is ever made.
C7_FourSeedAttempts ==
    /\ init["a"].rounds <= 4
    /\ Len(init["a"].delays) = init["a"].soFar
    /\ \A i \in DOMAIN init["a"].delays : init["a"].delays[i] = 5000
    /\ init["a"].st \in {"polling", "delay", "failed"} =>
          init["a"].rounds = init["a"].soFar + (IF init["a"].st = "delay" THEN 0 ELSE 1)
    /\ init["a"].st = "failed" =>
          /\ init["a"].rounds = 4
          /\ init["a"].seedReqs >= 4
          /\ init["a"].delays = <<5000, 5000, 5000>>

\* the initializer failed permanently
C7_Witness ==
    init["a"].st = "failed" /\ Len(init["a"].delays) = 3

C8_FivePostAttempts ==
    cur[MainSub].why = "postfail" => cur[MainSub].posts = 5

\* C8 as amended: a result post is attempted at most 6 times; when it fails
\* for good it was attempted exactly 6 times (the first attempt and 5
\* retries), no further attempt is pending, the tick yielded false, and the
\* loop is running with no error or completion sent to the subscriber.
C8_SixPostAttempts ==
    /\ cur[MainSub].posts <= 6
    /\ cur[MainSub].ph \in {"posting", "backoff"} =>
          cur[MainSub].posts = cur[MainSub].soFar + (IF cur[MainSub].ph = "backoff" THEN 0 ELSE 1)
    /\ cur[MainSub].why = "postfail" =>
          /\ cur[MainSub].posts = 6
          /\ cur[MainSub].ph = "idle"
          /\ Last(sink[MainSub].values) = "false"
          /\ ~Busy(MainSub)
          /\ loop[MainSub].st = "running"
          /\ sink[MainSub].term = "open"

\* a result post failed for good
C8_Witness ==
    cur[MainSub].why = "postfail" /\ cur[MainSub].ph = "idle"

\* C9: the waits armed between the attempts of one result post are, in order,
\* 2000, 4000, 8000, 16000 and 32000 ms.
C9_BackoffFromTwoSeconds ==
    IsPrefix(cur[MainSub].delays, <<2000, 4000, 8000, 16000, 32000>>)

\* C11: the outcome stream of start$() never completes on its own: while the
\* subscriber has not unsubscribed, it has been sent neither a completion nor
\* an error.
C11_StreamNeverCompletes ==
    sink[MainSub].term = "open"

\* the inner pipeline of the latest accepted tick of s has ended
TickDone(s) ==
    loop[s].st = "running" /\ cur[s].ph = "idle" /\ cur[s].why # "none"

\* the latest tick of s that was accepted
LastAccepted(s) ==
    CHOOSE i \in DOMAIN loop[s].ticks :
        /\ loop[s].ticks[i] # "dropped"
        /\ \A j \in DOMAIN loop[s].ticks : j > i => loop[s].ticks[j] = "dropped"

\* what the latest accepted tick of s yielded
LastOutcome(s) == loop[s].ticks[LastAccepted(s)]

\* in the latest accepted tick of s a well-formed job was fetched, a registered
\* model was selected and ran, and the post of its result was acknowledged
Reported(s) ==
    /\ WellFormed(GetNext(job[s]))
    /\ FindModel(job[s].org) # "none"
    /\ cur[s].runs = 1
    /\ cur[s].posts >= 1
    /\ cur[s].why = "ok"

\* C12: the outcome of a tick that has ended is true if a well-formed job was
\* fetched, a registered model ran and produced a result and the post was
\* acknowledged, and false in every other case.
C12_TrueIffFetchedRunAndReported ==
    TickDone(MainSub) =>
        LastOutcome(MainSub) = (IF Reported(MainSub) THEN "true" ELSE "false")

\* the report step of the tick in flight ends in this step
ReportEnds(s) == cur[s].ph = "posting" /\ cur'[s].ph = "idle"

\* a clock tick of the loop of s is accepted in this step
TickAccepted(s) == TickOccurs(s) /\ Last(loop'[s].ticks) = "active"

\* C13: when the report step of a tick ends, acknowledged or not, the loop is
\* idle and running and the subscriber was sent one boolean and no
\* termination; a result whose report failed is counted as abandoned; every
\* accepted tick starts a fresh pipeline (no run, no post, no retry state
\* carried over) with one new next-job request; and a post is only ever sent
\* for the result of the run of the same tick.
C13_FailedReportIsAbandoned ==
    /\ [][ReportEnds(MainSub) =>
            /\ cur'[MainSub].why \in {"ok", "badresp", "postfail"}
            /\ ~Busy(MainSub)'
            /\ loop'[MainSub].st = "running"
            /\ sink'[MainSub].term = "open"
            /\ sink'[MainSub].values =
                  Append(sink[MainSub].values,
                         IF cur'[MainSub].why = "ok" THEN "true" ELSE "false")
            /\ loop'[MainSub].abandoned =
                  loop[MainSub].abandoned + (IF cur'[MainSub].why = "postfail" THEN 1 ELSE 0)
            /\ loop'[MainSub].jobReqs = loop[MainSub].jobReqs]_vars
    /\ [][TickAccepted(MainSub) =>
            /\ cur'[MainSub] = [IdleCur EXCEPT !.ph = "fetching"]
            /\ job'[MainSub] = NoPayload("none")
            /\ loop'[MainSub].jobReqs = loop[MainSub].jobReqs + 1]_vars
    /\ [][cur'[MainSub].posts > cur[MainSub].posts =>
            /\ cur[MainSub].ph \in {"executing", "backoff"}
            /\ cur'[MainSub].posts = cur[MainSub].posts + 1
            /\ cur'[MainSub].runs = 1
            /\ cur'[MainSub].runs = cur[MainSub].runs]_vars
    /\ [](cur[MainSub].ph = "fetching" => cur[MainSub].posts = 0 /\ cur[MainSub].runs = 0)

\* after a result was abandoned, a later tick was accepted and has requested
\* the next job afresh
C13_Witness ==
    /\ loop[MainSub].abandoned >= 1
    /\ cur[MainSub].ph = "fetching"
    /\ cur[MainSub].posts = 0
    /\ loop[MainSub].jobReqs >= 2

\* C14: cancellation takes effect at a tick boundary only: no tick is ever
\* aborted, a job in flight when the subscriber unsubscribes still runs to
\* the end of its report step.
C14_InFlightJobSurvivesShutdown ==
    /\ \A i \in DOMAIN loop[MainSub].ticks : loop[MainSub].ticks[i] # "aborted"
    /\ cur[MainSub].why # "aborted"

\* C15: once the initializer has succeeded and the loop runs, every accepted
\* tick leads to a state in which no inner pipeline is active, and a clock
\* tick is accepted (a next-job request is issued) again and again.
C15_LoopNeverDeadlocks ==
    /\ Busy(MainSub) ~> ~Busy(MainSub)
    /\ <>(loop[MainSub].st = "running") => []<><<TickAccepted(MainSub)>>_vars

\* an accepted tick has ended with an abandoned result, the loop is idle
\* again and a new window of ticks has begun
C15_Witness ==
    /\ TickDone(MainSub)
    /\ cur[MainSub].why = "postfail"
    /\ loop[MainSub].ticks = <<>>

\* a seed request of s is answered without seeds in this step
NoSeedsAnswer(s) ==
    /\ init[s].st = "polling"
    /\ init'[s].st \in {"delay", "failed"}
    /\ "No seeds received. Retrying." \in Messages(lastLogs')

\* C16: an answer without seeds to one of the first three polling rounds is
\* retried after a 5000 ms timer and sends nothing to the caller, so an
\* initializer never fails before its third retry is used up; one that is
\* answered with seeds in its third round (after 2 retries) has armed exactly
\* the timers 5000, 5000 and has emitted, stored and completed with the one
\* source it built from those seeds.
C16_SeedsOnThirdAttemptSucceed ==
    /\ [][(NoSeedsAnswer("a") /\ init["a"].soFar < 3) =>
            /\ init'["a"].st = "delay"
            /\ init'["a"].soFar = init["a"].soFar + 1
            /\ init'["a"].delays = Append(init["a"].delays, 5000)
            /\ sink' = sink
            /\ UNCHANGED nodeVars]_vars
    /\ [](init["a"].st = "failed" => init["a"].soFar = 3)
    /\ []((init["a"].st = "done" /\ init["a"].soFar = 2) =>
            /\ init["a"].rounds = 3
            /\ init["a"].delays = <<5000, 5000>>
            /\ Built("a") = {init["a"].got}
            /\ made[init["a"].got].seeds \in {"seeds", "empty"}
            /\ randomStreamFactory = init["a"].got
            /\ sink["a"].values = <<init["a"].got>>
            /\ sink["a"].term = "complete")

\* the initializer succeeded in its third round, with seeds
C16_Witness ==
    /\ init["a"].st = "done"
    /\ init["a"].soFar = 2
    /\ init["a"].rounds = 3
    /\ made # <<>>
    /\ made[1].seeds = "seeds"

\* C17: a seed response that is an array of zero elements is treated like a
\* missing one: no source is ever constructed from it (the initializer
\* retries instead).
C17_EmptySeedsAreNoSeeds ==
    \A i \in DOMAIN made : made[i].seeds # "empty"

\* the latest tick of s has ended as "no job available": nothing was looked up,
\* run or posted, no error was raised, and the tick yielded false
EndedAsNoJob(s) ==
    /\ cur[s].why = "nojob"
    /\ lastLogs = <<L("No job received - retrying")>>
    /\ cur[s].type = "none"
    /\ cur[s].runs = 0
    /\ cur[s].posts = 0
    /\ LastOutcome(s) = "false"
    /\ sink[s].term = "open"

\* C18 as stated: a tick that fetched a descriptor without an id or without a
\* type selector (no orgConfig, or an orgConfig without a type) ends as "no
\* job available".
C18_MissingIdOrTypeIsNoJob ==
    (/\ TickDone(MainSub)
     /\ job[MainSub].kind = "job"
     /\ job[MainSub].id = "missing" \/ job[MainSub].org \in {"missing", "undefined"}) =>
        EndedAsNoJob(MainSub)

\* C18 as amended: a tick that fetched a descriptor without an id or without
\* an orgConfig ends as "no job available"; a descriptor with an id and an
\* orgConfig that has no type passes the check and is looked up: no model
\* matches, "Model undefined not found" is logged, nothing is run or posted,
\* no error is raised and the tick yields false.  No tick that raises no error
\* changes the count of failed ticks, and only a descriptor with an id and the
\* type of a registered model is ever run.
C18_MissingIdOrConfigIsNoJob ==
    /\ [](/\ TickDone(MainSub)
          /\ job[MainSub].kind = "job"
          /\ job[MainSub].id = "missing" \/ job[MainSub].org = "missing"
          => EndedAsNoJob(MainSub))
    /\ [](/\ TickDone(MainSub)
          /\ job[MainSub].kind = "job"
          /\ job[MainSub].id # "missing"
          /\ job[MainSub].org = "undefined"
          => /\ cur[MainSub].why = "nomodel"
             /\ lastLogs = <<L("SimConfig received"),
                             Record("Model <type> not found - skipping job", "undefined", 0)>>
             /\ cur[MainSub].runs = 0
             /\ cur[MainSub].posts = 0
             /\ LastOutcome(MainSub) = "false"
             /\ sink[MainSub].term = "open")
    /\ [][(cur[MainSub].ph = "fetching" /\ cur'[MainSub].why \in {"nojob", "nomodel"}) =>
            /\ loop'[MainSub].errTicks = loop[MainSub].errTicks
            /\ sink'[MainSub].values = Append(sink[MainSub].values, "false")]_vars
    /\ [](cur[MainSub].ph \in {"executing", "posting", "backoff"} =>
            /\ job[MainSub].kind = "job"
            /\ job[MainSub].id # "missing"
            /\ job[MainSub].org \in Models)

\* a tick that fetched a descriptor of a registered type without an id has ended
C18_Witness ==
    /\ TickDone(MainSub)
    /\ job[MainSub] = [kind |-> "job", id |-> "missing", org |-> "A"]
    /\ cur[MainSub].why = "nojob"

\* the records of the latest logging callback that name a model not found
NotFoundRecords ==
    {i \in DOMAIN lastLogs : lastLogs[i].message = "Model <type> not found - skipping job"}

\* C19: every log record that names a model type not found in the registry
\* has the level "warn".
C19_MissingModelIsWarned ==
    \A i \in NotFoundRecords : lastLogs[i].level = "warn"

C21_DispatchByExactType ==
    LET c == cur[MainSub]
        j == job[MainSub]
    IN  /\ c.ph \in {"executing", "posting", "backoff"} =>
              /\ j.kind = "job"
              /\ j.org \in Models
              /\ c.type = j.org
              /\ c.runs = 1
        /\ (j.kind = "job" /\ j.org \notin Models) =>
              /\ c.ph = "idle"
              /\ c.type = "none"
              /\ c.runs = 0
              /\ c.why \in {"nojob", "nomodel"}

\* with the registry {A, B}, a job of type "B" is running model B
C21_Witness ==
    /\ cur[MainSub].ph = "executing"
    /\ job[MainSub].org = "B"
    /\ cur[MainSub].type = "B"
    /\ cur[MainSub].runs = 1

\* the ticks of the record q that were projected onto an inner pipeline
Projected(q) == {i \in DOMAIN q : q[i] # "dropped"}

\* C23: a clock tick dropped while a job is in flight is never replayed and no
\* backlog builds up: a dropped tick stays dropped, a next-job request is sent
\* only in the step of a clock tick that finds the loop idle, the step that
\* ends the tick in flight leaves the loop idle without a request, and the
\* requests sent never outnumber the ticks that found the loop idle
C23_DroppedTicksAreNeverReplayed ==
    [][LET l == loop[MainSub]
           n == loop'[MainSub]
       IN  /\ \A i \in DOMAIN l.ticks :
                  l.ticks[i] = "dropped" =>
                      i \in DOMAIN n.ticks /\ n.ticks[i] = "dropped"
           /\ n.jobReqs # l.jobReqs =>
                  /\ TickOccurs(MainSub)
                  /\ ~Busy(MainSub)
                  /\ n.jobReqs = l.jobReqs + 1
           /\ (Busy(MainSub) /\ Active(MainSub)' = {}) =>
                  /\ cur'[MainSub].ph = "idle"
                  /\ n.jobReqs = l.jobReqs
           /\ n.jobReqs = Cardinality(Projected(n.ticks))
      ]_vars

\* the tick in flight has ended with a tick dropped behind it: the loop is idle
\* and one request was sent for two ticks
C23_Witness ==
    /\ loop[MainSub].st = "running"
    /\ ~Busy(MainSub)
    /\ cur[MainSub].ph = "idle"
    /\ Len(loop[MainSub].ticks) = 2
    /\ loop[MainSub].ticks[2] = "dropped"
    /\ loop[MainSub].jobReqs = 1

\* C24: the node id is fixed at construction as machineId + ":" + instanceId,
\* instanceId being a number in 100000..999999, no step changes any of the
\* three, and every next-job request of the node carries that id as its nodeId
C24_NodeIdIsFixed ==
    /\ [](/\ id = machineId \o ":" \o ToString(instanceId)
          /\ instanceId \in 100000..999999
          /\ machineId \in {MachineIdSync} \cup (ConfigIds \ {"absent", ""})
          /\ loop[MainSub].nodeIds \subseteq {id})
    /\ [][/\ id' = id
          /\ machineId' = machineId
          /\ instanceId' = instanceId
          /\ TickAccepted(MainSub) => loop'[MainSub].nodeIds = {id}]_vars

\* a node with a configured id and the highest instance id drawn has sent a
\* next-job request with its id
C24_Witness ==
    /\ id = "node-1:" \o ToString(InstanceId(RandomSteps - 1))
    /\ loop[MainSub].jobReqs = 1
    /\ loop[MainSub].nodeIds = {id}

\* C26: the trace counter is reset to zero at the start of every job: an
\* accepted tick leaves the counter at 0 whatever it was, it stays 0 while the
\* job is fetched, and it is 0 in the step in which the fetched job begins
\* executing
C26_CounterIsZeroAtJobStart ==
    /\ [](cur[MainSub].ph = "fetching" => counter = 0)
    /\ [][/\ TickAccepted(MainSub) => counter' = 0
          /\ (cur[MainSub].ph = "fetching" /\ cur'[MainSub].ph = "executing") =>
                 counter = 0 /\ counter' = 0]_vars

\* the second job has just been started with the counter at 0, in quiet mode,
\* and the console had to end a line of progress markers for it: the job before
\* had counted trace records and nothing was logged after them, so that the
\* reset replaced a count of one or more
C26_Witness ==
    /\ ~verbose
    /\ cur[MainSub].ph = "fetching"
    /\ loop[MainSub].jobReqs = 2
    /\ counter = 0
    /\ stdout = <<"\n", Render(L("Requesting job"))>>

\* what the console wrote in this step
Written == {stdout'[i] : i \in DOMAIN stdout'}

\* C25: in quiet mode a trace record adds one to the counter and is not
\* rendered: a marker is written if it begins the line of markers, and a
\* secondary marker exactly when the counter has reached a multiple of
\* _counterDiv, never for a _counterDiv of 0 or less; in verbose mode it is
\* rendered and not counted; an info, warn or error record is rendered in full
\* in both modes, after the end of a pending line of markers, and not counted
C25_QuietTraceIsCountedNotRendered ==
    [][LET rec == lastLogs'[1]
           first == IF newline THEN 0 ELSE 1
           secondary == IF counterDiv <= 0 THEN 0
                        ELSE IF counter' % counterDiv = 0 THEN 1 ELSE 0
       IN  IF rec.level = "trace"
           THEN IF verbose
                THEN /\ stdout' = <<Render(rec)>>
                     /\ counter' = counter
                ELSE /\ counter' = counter + 1
                     /\ Written \subseteq {"."}
                     /\ Len(stdout') = first + secondary
                     /\ newline'
           ELSE /\ rec.level \in LineTypes
                /\ Len(lastLogs') = 1
                /\ stdout' = (IF newline THEN <<"\n">> ELSE <<>>) \o <<Render(rec)>>
                /\ Render(rec) =
                       rec.level \o " CustomModule: Custom operation completed"
                /\ counter' = counter
                /\ ~newline'
      ]_vars

\* in quiet mode the thousandth trace record has just been counted and, the
\* line of markers being open, the secondary marker alone was written
C25_Witness ==
    /\ ~verbose
    /\ counterDiv = CounterDiv
    /\ counter = CounterDiv
    /\ lastLogs[1].level = "trace"
    /\ stdout = <<".">>
    /\ newline

\* C22: simulate$() called for a registered model type while the node has no
\* random stream factory emits null and completes without an error, invokes no
\* model, and logs one info record saying the factory is not initialised
C22_SimulateWithoutSourceEmitsNull ==
    [][(/\ kind["b"] = "none"
        /\ kind'["b"] = "simulate"
        /\ job'["b"].org \in Models
        /\ GetRandomStreamFactory = Undefined) =>
           /\ sink'["b"] = [values |-> <<"null">>, term |-> "complete", err |-> "none"]
           /\ cur'["b"].ph = "idle"
           /\ cur'["b"].runs = 0
           /\ cur'["b"].type = "none"
           /\ lastLogs' = <<L("Random stream factory not initialised - retrying")>>
           /\ lastLogs'[1].level = "info"
           /\ randomStreamFactory' = Undefined
      ]_vars

\* simulate$() was called for the registered type A before any seeds had been
\* received, and has answered null
C22_Witness ==
    /\ kind["b"] = "simulate"
    /\ job["b"].org = "A"
    /\ cur["b"].why = "notready"
    /\ cur["b"].runs = 0
    /\ sink["b"].values = <<"null">>
    /\ sink["b"].term = "complete"

\* the accepted ticks of the record q whose inner pipeline has ended
Ended(q) == {i \in Projected(q) : q[i] # "active"}

\* C28: every accepted clock tick yields exactly one boolean on the outcome
\* stream: while the loop runs, the subscriber has received as many values as
\* accepted ticks have ended, all of them booleans, and no accepted tick ended
\* without a value
C28_EveryAcceptedTickYieldsOneBoolean ==
    LET q == loop[MainSub].ticks
    IN  loop[MainSub].st = "running" =>
            /\ Len(sink[MainSub].values) = Cardinality(Ended(q))
            /\ \A i \in DOMAIN sink[MainSub].values :
                   sink[MainSub].values[i] \in {"true", "false"}
            /\ \A i \in Ended(q) : q[i] \in {"true", "false"}

\* C29: within one accepted tick one next-job request is sent and the selected
\* model is run at most once: the requests sent equal the ticks accepted, a
\* run begins only from the fetch of the tick, and a retry of the result post
\* sends one more post of the result of that one run, with no new request, no
\* new run and the same job
C29_NoDuplicatedWork ==
    /\ [](/\ loop[MainSub].jobReqs = Cardinality(Projected(loop[MainSub].ticks))
          /\ cur[MainSub].runs <= 1
          /\ cur[MainSub].posts <= cur[MainSub].soFar + 1
          /\ cur[MainSub].posts > 0 => cur[MainSub].runs = 1)
    /\ [][/\ cur'[MainSub].runs > cur[MainSub].runs =>
                 /\ cur[MainSub].ph = "fetching"
                 /\ cur[MainSub].runs = 0
          /\ cur[MainSub].ph = "backoff" =>
                 /\ loop'[MainSub].jobReqs = loop[MainSub].jobReqs
                 /\ job'[MainSub] = job[MainSub]
                 /\ \/ cur'[MainSub] = cur[MainSub]
                    \/ cur'[MainSub] =
                           [cur[MainSub] EXCEPT !.ph = "posting", !.posts = @ + 1]]_vars

\* the result of the one run of a tick is being posted for the third time
C29_Witness ==
    /\ cur[MainSub].ph = "posting"
    /\ cur[MainSub].posts = 3
    /\ cur[MainSub].runs = 1
    /\ loop[MainSub].jobReqs = 1

\* the subscribers whose job is executing
Executing == {s \in Subscribers : cur[s].ph = "executing"}

\* C30: a node is a single logical worker: at most one job is executing on it
\* in every state, also when start$() has been subscribed to more than once
C30_SingleLogicalWorker == Cardinality(Executing) <= 1

\* C27: the log stream is a broadcast: the records of every emission are
\* rendered by the console and handed to every external subscriber of getLog$()
\* attached at that moment (and to no other), and the step in which a
\* subscriber attaches or detaches changes nothing of what the console was
\* handed, of what it wrote, or of its state
C27_LogIsBroadcast ==
    [][IF observers' # observers
       THEN /\ lastLogs' = lastLogs
            /\ stdout' = stdout
            /\ newline' = newline
            /\ counter' = counter
            /\ received' = received
       ELSE (lastLogs' # lastLogs \/ stdout' # stdout \/ received' # received) =>
                /\ \A o \in LogObservers :
                       received'[o] = IF o \in observers THEN lastLogs' ELSE <<>>
                /\ \A i \in DOMAIN lastLogs' : Render(lastLogs'[i]) \in Written
      ]_vars

\* with two external subscribers attached, the records of the arrival of the
\* seeds were handed to both and rendered by the console
C27_Witness ==
    /\ observers = LogObservers
    /\ "Seeds fetched" \in Messages(lastLogs)
    /\ \A o \in LogObservers : received[o] = lastLogs
    /\ Len(stdout) >= Len(lastLogs)

C32_RefusedPostIsNotRetried ==
    /\ [](/\ cur[MainSub].ph = "backoff" => postResponse[MainSub] = "error"
          /\ cur[MainSub].why = "badresp" =>
                 postResponse[MainSub] \in {"absent", "errfield"})
    /\ [][LET c == cur[MainSub]
              d == cur'[MainSub]
              r == postResponse'[MainSub]
          IN  (c.ph = "posting" /\ d # c) =>
                  /\ r \in PostResponses
                  /\ r \in {"absent", "errfield"} =>
                         /\ d = [c EXCEPT !.ph = "idle", !.why = "badresp"]
                         /\ sink'[MainSub].values = Append(sink[MainSub].values, "false")
                         /\ sink'[MainSub].term = "open"
                         /\ Active(MainSub)' = {}
                         /\ lastLogs' = lastLogs
                  /\ d.soFar > c.soFar => r = "error"
                  /\ r = "error" => d.ph = "backoff" \/ d.why = "postfail"
                  /\ r = "ok" => d.why = "ok"
         ]_vars

\* the first post of a result was answered with an error payload: the tick
\* has ended with false after one post and no retry
C32_Witness ==
    /\ postResponse[MainSub] = "errfield"
    /\ cur[MainSub].why = "badresp"
    /\ cur[MainSub].ph = "idle"
    /\ cur[MainSub].posts = 1
    /\ cur[MainSub].soFar = 0
    /\ Last(sink[MainSub].values) = "false"

\* C33: the next-job fetch is not retried within a tick: the step in which the
\* request fails ends the tick with the outcome false, logged as an error of
\* the job, with no run, no post, no wait armed and no further request; the
\* requests grow by one, and only in the step of an accepted clock tick
C33_FailedFetchIsNotRetried ==
    /\ [](cur[MainSub].why = "fetcherr" =>
              /\ job[MainSub].kind = "error"
              /\ cur[MainSub] = [IdleCur EXCEPT !.why = "fetcherr"])
    /\ [][LET c == cur[MainSub]
              d == cur'[MainSub]
          IN  /\ (c.ph = "fetching" /\ d # c /\ job'[MainSub].kind = "error") =>
                     /\ d = [IdleCur EXCEPT !.why = "fetcherr"]
                     /\ Active(MainSub)' = {}
                     /\ loop'[MainSub].st = "running"
                     /\ loop'[MainSub].jobReqs = loop[MainSub].jobReqs
                     /\ sink'[MainSub].values = Append(sink[MainSub].values, "false")
                     /\ sink'[MainSub].term = "open"
                     /\ lastLogs' = <<L("Error processing job")>>
              /\ loop'[MainSub].jobReqs # loop[MainSub].jobReqs =>
                     /\ TickAccepted(MainSub)
                     /\ loop'[MainSub].jobReqs = loop[MainSub].jobReqs + 1
         ]_vars

\* the next-job request of the second accepted tick has failed: the tick has
\* ended with false, and two requests were sent for two accepted ticks
C33_Witness ==
    /\ cur[MainSub] = [IdleCur EXCEPT !.why = "fetcherr"]
    /\ job[MainSub].kind = "error"
    /\ Len(loop[MainSub].ticks) = 2
    /\ loop[MainSub].ticks[2] = "false"
    /\ loop[MainSub].jobReqs = 2
    /\ Last(sink[MainSub].values) = "false"

\* the handler of main.ts that a notification of the start$() stream invokes,
\* and the exit code it ends the process with
MainHandler(term) ==
    IF term = "error" THEN [handler |-> "error", exit |-> 1]
    ELSE IF term = "complete" THEN [handler |-> "complete", exit |-> 0]
    ELSE [handler |-> "none", exit |-> Undefined]

C35_OneSourcePerSubscription ==
    /\ [](\A s \in Pair :
            /\ Cardinality(Built(s)) <= 1
            /\ Len(sink[s].values) <= 1
            /\ init[s].pending <= init[s].seedReqs
            /\ Built(s) # {} => init[s].st = "done" /\ sink[s].values = <<init[s].got>>
                                /\ init[s].got \in Built(s)
            /\ init[s].st = "done" =>
                  /\ sink[s] = [values |-> <<init[s].got>>, term |-> "complete",
                                err |-> "none"]
                  /\ init[s].pending = 0)
    /\ [][\A s \in Pair :
            /\ Built(s)' # Built(s) =>
                  /\ init[s].st = "polling" /\ init[s].pending >= 1
                  /\ init'[s].st = "done"
                  /\ init'[s].seedReqs = init[s].seedReqs
            /\ init[s].st = "done" =>
                  /\ init'[s] = init[s]
                  /\ sink'[s] = sink[s]
                  /\ Built(s)' = Built(s)]_vars

\* two seed requests of one polling round were outstanding when the first
\* response arrived, and it yielded the source
C35_Witness ==
    \E s \in Pair :
        /\ init[s].st = "done"
        /\ init[s].rounds = 1
        /\ init[s].seedReqs = MaxPending
        /\ Cardinality(Built(s)) = 1
        /\ sink[s].term = "complete"

\* the number of line breaks among the pieces written to the console
LineBreaks(pieces) == Cardinality({i \in DOMAIN pieces : pieces[i] = "\n"})

\* C36: the pending-newline flag of the console is raised only by a trace
\* record handled in quiet mode, which writes the opening marker exactly when
\* the flag was clear, and stays raised until the next info, warn or error
\* record, which lowers it and writes exactly one line break before its line;
\* a record handled while the flag is clear writes no line break; in verbose
\* mode the flag is never raised and a trace record never changes the counter.
C36_NewlineFlagStateMachine ==
    /\ [](/\ verbose => ~newline /\ counter = 0
          /\ newline => ~verbose /\ counter >= 1)
    /\ [][LET rec == lastLogs'[1]
              traced == rec.level = "trace"
          IN  /\ (~newline /\ newline') =>
                    /\ traced /\ ~verbose
                    /\ stdout'[1] = "."
                    /\ LineBreaks(stdout') = 0
              /\ (newline /\ traced) =>
                    /\ newline'
                    /\ stdout' = IF SecondaryMarker(counter', counterDiv)
                                 THEN <<".">> ELSE <<>>
              /\ (newline /\ ~traced) =>
                    /\ ~newline'
                    /\ stdout' = <<"\n", Render(rec)>>
                    /\ LineBreaks(stdout') = 1
              /\ (~newline /\ ~traced) =>
                    /\ ~newline'
                    /\ stdout' = <<Render(rec)>>
              /\ (newline /\ ~newline') => rec.level \in LineTypes
              /\ (verbose /\ traced) =>
                    /\ ~newline'
                    /\ counter' = counter
                    /\ LineBreaks(stdout') = 0
         ]_vars

\* in quiet mode two trace records were counted on one line of markers, and the
\* warn record after them ended that line with a line break and lowered the flag
C36_Witness ==
    /\ ~verbose
    /\ counterDiv = CounterDiv
    /\ counter = 2
    /\ ~newline
    /\ lastLogs[1].level = "warn"
    /\ stdout = <<"\n", Render(lastLogs[1])>>

====
